---- MODULE Spec2Model ----
(***************************************************************************)
(* The allocator and conservative collector of src/main.c, modelled at the *)
(* level of the machine words it reads and writes.                         *)
(*                                                                         *)
(* The arena is the sequence mem of 8-byte words that sbrk has handed out, *)
(* starting at address HeapBase.  A word is a pair <<lo, hi>> of its two   *)
(* 32-bit halves, so that the int fields free/marked (which share one      *)
(* word) and magic (low half, padding above it) are written exactly as the *)
(* struct layout of block_meta on x86_64 writes them.  A size_t or pointer *)
(* value v of the model is the word <<v, 0>>.  Headers are not a separate  *)
(* structure: a header absorbed by a merge stays in the payload as stale   *)
(* data, and a header created by a split overwrites payload words.         *)
(***************************************************************************)
EXTENDS Integers, Sequences, FiniteSets, TLC

\* ---------------------------------------------------------------- bounds
\* Words the memory source hands out before sbrk fails.
MaxHeapWords == 15
\* Calls and stores the client makes in one run.
MaxSteps == 7
\* Pointer variables of the client program: a global, between etext and end,
\* and a local of the function that calls gc, on the stack.
RootVars == {"g", "l"}
\* Request sizes the client passes to malloc and realloc.
ReqSizes == {0, 1, 9}

\* ------------------------------------------------------ program constants
NULL == 0
\* sizeof(uintptr_t), the scan stride and the alignment unit
WORD == 8
\* sizeof(struct block_meta): size_t, pointer, three ints, padded to 8
META_SIZE == 32
MIN_SIZE == 8
\* 0x12345678, written by request_space
MAGIC_FRESH == 305419896
\* 0x77777777, written by malloc on reuse
MAGIC_REUSED == 2004318071
\* 0x22222222, written by malloc on the remainder of a split
MAGIC_SPLIT == 572662306
\* 0x55555555, written by free and by the sweep of gc
MAGIC_RELEASED == 1431655765
\* First address sbrk(0) returns; aligned to WORD, above every size and flag.
HeapBase == 4096
\* size_t arithmetic is carried modulo SIZE_MOD (the model's 2^w)
SIZE_MOD == 2^30

VARIABLES
  mem,          \* the arena: word k holds the 8 bytes at HeapBase + 8*(k-1)
  global_base,  \* address of the first block header, or NULL
  roots,        \* the client's pointer variables (root words)
  lens,         \* words the client may write through each pointer variable
  status,       \* "run", or "abort" once an assert has failed
  op,           \* the last call the client made, its arguments and result
  steps         \* calls and stores made so far

vars == <<mem, global_base, roots, lens, status, op, steps>>

\* ------------------------------------------------------------ raw memory
Idx(a) == (a - HeapBase) \div WORD + 1
Brk(m) == HeapBase + WORD * Len(m)
ZeroWord == <<0, 0>>
\* The 64-bit value of a word when it fits the model's integers; a word with
\* a non-zero high half is larger than every size and address of the model.
Val(w) == IF w[2] = 0 THEN w[1] ELSE SIZE_MOD

SizeOf(m, b) == Val(m[Idx(b)])
NextOf(m, b) == Val(m[Idx(b) + 1])
FreeOf(m, b) == m[Idx(b) + 2][1]
MarkedOf(m, b) == m[Idx(b) + 2][2]
MagicOf(m, b) == m[Idx(b) + 3][1]

SetSize(m, b, v) == [m EXCEPT ![Idx(b)] = <<v, 0>>]
SetNext(m, b, v) == [m EXCEPT ![Idx(b) + 1] = <<v, 0>>]
SetFree(m, b, v) == [m EXCEPT ![Idx(b) + 2] = <<v, @[2]>>]
SetMarked(m, b, v) == [m EXCEPT ![Idx(b) + 2] = <<@[1], v>>]
SetMagic(m, b, v) == [m EXCEPT ![Idx(b) + 3] = <<v, @[2]>>]

\* ------------------------------------------------------------ the list
RECURSIVE ListFrom(_, _)
ListFrom(m, b) == IF b = NULL THEN <<>> ELSE <<b>> \o ListFrom(m, NextOf(m, b))
\* The block headers reached from global_base, in list order.
Blocks(m, g) == ListFrom(m, g)

\* ------------------------------------------------------- memory source
\* (void *)-1, what sbrk returns when it cannot extend the arena
SBRK_FAILED == -1
RECURSIVE Zeros(_)
Zeros(k) == IF k = 0 THEN <<>> ELSE <<ZeroWord>> \o Zeros(k - 1)
\* sbrk(incr): the previous break and the arena extended by incr bytes of
\* zero pages, or SBRK_FAILED and the arena as it was.
sbrk(m, incr) ==
  IF Len(m) * WORD + incr > MaxHeapWords * WORD
  THEN [ret |-> SBRK_FAILED, mem |-> m]
  ELSE [ret |-> Brk(m), mem |-> m \o Zeros(incr \div WORD)]

\* ------------------------------------------------------------ allocator
RECURSIVE FindAnyFree(_, _, _, _)
\* A search that takes the first free block, whatever its size.
FindAnyFree(m, current, last, size) ==
  IF current # NULL /\ ~(FreeOf(m, current) # 0)
  THEN FindAnyFree(m, NextOf(m, current), current, size)
  ELSE [block |-> current, last |-> last]

RECURSIVE FindFrom(_, _, _, _)
FindFrom(m, current, last, size) ==
  IF current # NULL /\ ~(FreeOf(m, current) # 0 /\ SizeOf(m, current) >= size)
  THEN FindFrom(m, NextOf(m, current), current, size)
  ELSE [block |-> current, last |-> last]
\* find_free_block(&last, size): the first free block that is large enough
\* (NULL if none) and the last block walked past, left in *last.
find_free_block(m, g, last, size) == FindFrom(m, g, last, size)

\* request_space(last, size).  The assert compares the break read first with
\* what sbrk returned, so it fails exactly when sbrk fails; the test for
\* (void *)-1 comes after it.
request_space(m, last, size) ==
  LET Body(block, request) ==
        LET m1 == IF last # NULL THEN SetNext(request.mem, last, block) ELSE request.mem
            m2 == SetSize(m1, block, size)
            m3 == SetNext(m2, block, NULL)
            m4 == SetFree(m3, block, 0)
            m5 == SetMarked(m4, block, 1)
            m6 == SetMagic(m5, block, MAGIC_FRESH)
        IN  IF block # request.ret THEN [st |-> "abort", mem |-> m, block |-> NULL]
            ELSE IF request.ret = SBRK_FAILED THEN [st |-> "ok", mem |-> m, block |-> NULL]
            ELSE [st |-> "ok", mem |-> m6, block |-> block]
  IN  Body(Brk(m), sbrk(m, (size + META_SIZE) % SIZE_MOD))

\* A malloc that forgets to round the request up.
AlignNone(size) == size

\* size = (size + 7) & ~7 on size_t
AlignUp(size) == LET s == (size + 7) % SIZE_MOD IN s - (s % 8)

\* A split test that asks for more than the smallest remainder.
SplitStrict(bsize, size) == bsize > size + META_SIZE + MIN_SIZE
\* if (block->size >= size + META_SIZE + MIN_SIZE)
SplitTest(bsize, size) == bsize >= size + META_SIZE + MIN_SIZE

\* A reuse that cuts the block down to the request even when it does not
\* split it.
ReuseTrims(m, block, size) ==
  LET remaining == SizeOf(m, block) - size - META_SIZE
      new_block == block + META_SIZE + size
      s1 == SetSize(m, block, size)
      s2 == SetSize(s1, new_block, remaining)
      s3 == SetFree(s2, new_block, 1)
      s4 == SetMarked(s3, new_block, 0)
      s5 == SetMagic(s4, new_block, MAGIC_SPLIT)
      s6 == SetNext(s5, new_block, NextOf(m, block))
      s7 == SetNext(s6, block, new_block)
      m1 == IF SplitTest(SizeOf(m, block), size) THEN s7 ELSE s1
      m2 == SetFree(m1, block, 0)
      m3 == SetMarked(m2, block, 1)
  IN  SetMagic(m3, block, MAGIC_REUSED)

\* A split that links the remainder after the block that followed, not
\* after the block it was cut from.
ReuseLinksLate(m, block, size) ==
  LET remaining == SizeOf(m, block) - size - META_SIZE
      new_block == block + META_SIZE + size
      follower == NextOf(m, block)
      s1 == SetSize(m, block, size)
      s2 == SetSize(s1, new_block, remaining)
      s3 == SetFree(s2, new_block, 1)
      s4 == SetMarked(s3, new_block, 0)
      s5 == SetMagic(s4, new_block, MAGIC_SPLIT)
      s6 == SetNext(s5, new_block, IF follower = NULL THEN NULL ELSE NextOf(m, follower))
      s7 == SetNext(s6, IF follower = NULL THEN block ELSE follower, new_block)
      m1 == IF SplitTest(SizeOf(m, block), size) THEN s7 ELSE m
      m2 == SetFree(m1, block, 0)
      m3 == SetMarked(m2, block, 1)
  IN  SetMagic(m3, block, MAGIC_REUSED)

\* The reuse branch of malloc: split the found free block when SplitTest
\* says so, then hand the block out.
Reuse(m, block, size) ==
  LET remaining == SizeOf(m, block) - size - META_SIZE
      new_block == block + META_SIZE + size
      s1 == SetSize(m, block, size)
      s2 == SetSize(s1, new_block, remaining)
      s3 == SetFree(s2, new_block, 1)
      s4 == SetMarked(s3, new_block, 0)
      s5 == SetMagic(s4, new_block, MAGIC_SPLIT)
      s6 == SetNext(s5, new_block, NextOf(m, block))
      s7 == SetNext(s6, block, new_block)
      m1 == IF SplitTest(SizeOf(m, block), size) THEN s7 ELSE m
      m2 == SetFree(m1, block, 0)
      m3 == SetMarked(m2, block, 1)
  IN  SetMagic(m3, block, MAGIC_REUSED)

\* A malloc that serves a request of no bytes like any other.
ZeroSizeNever(size) == FALSE
\* if (size <= 0) return NULL;
ZeroSize(size) == size <= 0

\* malloc(size): [st, mem, base, ret] = how the call ended, the arena and
\* global_base after it, and the pointer returned.
malloc(m, g, size) ==
  LET \* block = request_space(...); if (!block) return NULL;
      Fresh(r) ==
        IF r.st = "abort" THEN [st |-> "abort", mem |-> m, base |-> g, ret |-> NULL]
        ELSE IF r.block = NULL THEN [st |-> "ok", mem |-> m, base |-> g, ret |-> NULL]
        ELSE [st |-> "ok", mem |-> r.mem, base |-> IF g = NULL THEN r.block ELSE g,
              ret |-> r.block + META_SIZE]
      \* block = find_free_block(&last, size); if (!block) ... else ...
      Search(asize, found) ==
        IF found.block = NULL THEN Fresh(request_space(m, found.last, asize))
        ELSE [st |-> "ok", mem |-> Reuse(m, found.block, asize), base |-> g,
              ret |-> found.block + META_SIZE]
      Aligned(asize) ==
        IF g = NULL THEN Fresh(request_space(m, NULL, asize))
        ELSE Search(asize, find_free_block(m, g, NULL, asize))
  IN  IF ZeroSize(size) THEN [st |-> "ok", mem |-> m, base |-> g, ret |-> NULL]
      ELSE Aligned(AlignUp(size))

\* ((char *)current + META_SIZE + current->size == (char *)next)
Adjacent(m, current, next) == current + META_SIZE + SizeOf(m, current) = next

RECURSIVE MergeKeepsLink(_, _)
\* A merge that grows the block but leaves the absorbed block in the list.
MergeKeepsLink(m, current) ==
  IF current = NULL \/ NextOf(m, current) = NULL THEN m
  ELSE LET next == NextOf(m, current)
       IN  IF FreeOf(m, current) # 0 /\ FreeOf(m, next) # 0 /\ Adjacent(m, current, next)
           THEN MergeKeepsLink(
                  SetSize(m, current,
                          (SizeOf(m, current) + META_SIZE + SizeOf(m, next)) % SIZE_MOD),
                  current)
           ELSE MergeKeepsLink(m, next)

RECURSIVE MergeFrom(_, _)
MergeFrom(m, current) ==
  IF current = NULL \/ NextOf(m, current) = NULL THEN m
  ELSE LET next == NextOf(m, current)
       IN  IF FreeOf(m, current) # 0 /\ FreeOf(m, next) # 0 /\ Adjacent(m, current, next)
           THEN MergeFrom(
                  SetNext(SetSize(m, current,
                                  (SizeOf(m, current) + META_SIZE + SizeOf(m, next)) % SIZE_MOD),
                          current, NextOf(m, next)),
                  current)
           ELSE MergeFrom(m, next)
\* A free that never coalesces.
MergeNothing(m, head) == m
\* merge_free_blocks(head): one pass that stays on a block after a merge.
merge_free_blocks(m, head) == MergeFrom(m, head)

\* A free compiled without its asserts.
AssertsOff(m, block) == TRUE

\* The two asserts of free: the block is in use and carries an allocation tag.
FreeAsserts(m, block) ==
  /\ FreeOf(m, block) = 0
  /\ MagicOf(m, block) = MAGIC_REUSED \/ MagicOf(m, block) = MAGIC_FRESH

\* free(ptr): [st, mem]
free(m, g, ptr) ==
  LET block == ptr - META_SIZE
      m1 == SetFree(m, block, 1)
      m2 == SetMarked(m1, block, 0)
      m3 == SetMagic(m2, block, MAGIC_RELEASED)
  IN  IF ptr = NULL THEN [st |-> "ok", mem |-> m]
      ELSE IF ~FreeAsserts(m, block) THEN [st |-> "abort", mem |-> m]
      ELSE [st |-> "ok", mem |-> merge_free_blocks(m3, g)]

\* Little-endian copy of the b lowest bytes (0 < b < 4) of a 32-bit half.
MixHalf(dv, sv, b) == IF b = 4 THEN sv ELSE (dv - (dv % (256^b))) + (sv % (256^b))
MixWord(d, s, b) ==
  IF b <= 4 THEN <<MixHalf(d[1], s[1], b), d[2]>>
  ELSE <<s[1], MixHalf(d[2], s[2], b - 4)>>
\* A realloc that moves the block without copying its payload.
CopyNothing(m, dst, src, n) == m
RECURSIVE memcpy(_, _, _, _)
\* memcpy(dst, src, n) on word-aligned dst and src
memcpy(m, dst, src, n) ==
  IF n = 0 THEN m
  ELSE IF n < WORD
  THEN [m EXCEPT ![Idx(dst)] = MixWord(@, m[Idx(src)], n)]
  ELSE memcpy([m EXCEPT ![Idx(dst)] = m[Idx(src)]], dst + WORD, src + WORD, n - WORD)

\* A realloc that always moves the block.
FitsNever(m, block, size) == FALSE

\* if (size <= block->size) return ptr;
FitsInPlace(m, block, size) == size <= SizeOf(m, block)

\* realloc(ptr, size): [st, mem, base, ret, copied]; copied is the byte count
\* handed to memcpy (0 when memcpy is not reached).
realloc(m, g, ptr, size) ==
  LET block == ptr - META_SIZE
      Result(r, base, ret, n) ==
        [st |-> r.st, mem |-> r.mem, base |-> base, ret |-> ret, copied |-> n]
      \* memcpy(new_ptr, ptr, block->size); free(ptr); return new_ptr;
      Copy(a, n) == Result(free(memcpy(a.mem, a.ret, ptr, n), a.base, ptr), a.base, a.ret, n)
      \* new_ptr = malloc(size); if (!new_ptr) return NULL;
      Move(a) ==
        IF a.st = "abort" \/ a.ret = NULL THEN Result(a, a.base, a.ret, 0)
        ELSE Copy(a, SizeOf(a.mem, block))
      Plain(a) == Result(a, a.base, a.ret, 0)
  IN  IF ptr = NULL THEN Plain(malloc(m, g, size))
      ELSE IF size = 0 THEN Result(free(m, g, ptr), g, NULL, 0)
      ELSE IF FitsInPlace(m, block, size)
      THEN [st |-> "ok", mem |-> m, base |-> g, ret |-> ptr, copied |-> 0]
      ELSE Move(malloc(m, g, size))

\* ------------------------------------------------------------ collector
\* value >= block_start && value < block_end, block_start = block + 1
InPayload(m, block, value) ==
  LET block_start == block + META_SIZE
      block_end == block_start + SizeOf(m, block)
  IN  value >= block_start /\ value < block_end

RECURSIVE MarkContaining(_, _, _)
\* The inner while of scan_region: mark the first block holding value.
MarkContaining(m, block, value) ==
  IF block = NULL THEN m
  ELSE IF InPayload(m, block, value) THEN SetMarked(m, block, 1)
  ELSE MarkContaining(m, NextOf(m, block), value)

\* value >= heap_start && value < heap_end
LooksLikeHeapPointer(m, g, value) == value >= g + META_SIZE /\ value < Brk(m)

RECURSIVE ScanWords(_, _, _, _)
ScanWords(m, g, words, k) ==
  IF k > Len(words) THEN m
  ELSE ScanWords(IF LooksLikeHeapPointer(m, g, words[k])
                 THEN MarkContaining(m, g, words[k]) ELSE m,
                 g, words, k + 1)
\* scan_region(start, end), the region given as the words it holds
scan_region(m, g, words) == IF g = NULL THEN m ELSE ScanWords(m, g, words, 1)

RECURSIVE MarkOthers(_, _, _)
\* The innermost for of scan_heap: every unmarked block holding value.
MarkOthers(m, other, value) ==
  IF other = NULL THEN m
  ELSE MarkOthers(IF MarkedOf(m, other) = 0 /\ InPayload(m, other, value)
                  THEN SetMarked(m, other, 1) ELSE m,
                  NextOf(m, other), value)

RECURSIVE ScanData(_, _, _, _)
\* for (i = 0; i < word_count; i++) over the payload of block
ScanData(m, g, block, i) ==
  IF i >= SizeOf(m, block) \div WORD THEN m
  ELSE ScanData(MarkOthers(m, g, Val(m[Idx(block + META_SIZE) + i])), g, block, i + 1)

RECURSIVE HeapPass(_, _, _)
\* One iteration of the do-while of scan_heap, from block to the list's end.
HeapPass(m, g, block) ==
  IF block = NULL THEN m
  ELSE HeapPass(IF MarkedOf(m, block) = 0 THEN m ELSE ScanData(m, g, block, 0),
                g, NextOf(m, block))

\* A heap scan that makes one pass and stops.
HeapOnce(m, g) == HeapPass(m, g, g)

RECURSIVE HeapFix(_, _)
\* do { ... } while (new_marks): a pass set new_marks iff it changed a mark.
HeapFix(m, g) ==
  LET Again(m1) == IF m1 # m THEN HeapFix(m1, g) ELSE m1
  IN  Again(HeapPass(m, g, g))
\* A collector that marks from the roots only.
RootsOnly(m, g) == m
scan_heap(m, g) == IF g = NULL THEN m ELSE HeapFix(m, g)

RECURSIVE ResetMarks(_, _)
ResetMarks(m, block) ==
  IF block = NULL THEN m ELSE ResetMarks(SetMarked(m, block, 0), NextOf(m, block))

\* A sweep that releases nothing.
SweepNothing(m, block) == FALSE

\* if (!block->marked && !block->free)
SweepTest(m, block) == MarkedOf(m, block) = 0 /\ FreeOf(m, block) = 0

RECURSIVE SweepKeepsTag(_, _)
\* A sweep that releases blocks without retagging them.
SweepKeepsTag(m, block) ==
  IF block = NULL THEN m
  ELSE SweepKeepsTag(IF SweepTest(m, block)
                     THEN SetMarked(SetFree(m, block, 1), block, 0)
                     ELSE m,
                     NextOf(m, block))

RECURSIVE SweepOne(_, _)
\* A sweep that stops after the first block it releases.
SweepOne(m, block) ==
  IF block = NULL THEN m
  ELSE IF SweepTest(m, block)
  THEN SetMagic(SetMarked(SetFree(m, block, 1), block, 0), block, MAGIC_RELEASED)
  ELSE SweepOne(m, NextOf(m, block))

RECURSIVE Sweep(_, _)
Sweep(m, block) ==
  IF block = NULL THEN m
  ELSE Sweep(IF SweepTest(m, block)
             THEN SetMagic(SetMarked(SetFree(m, block, 1), block, 0), block, MAGIC_RELEASED)
             ELSE m,
             NextOf(m, block))

\* The arena as gc hands it to scan_heap: marks reset, roots scanned.
AfterRoots(m, g, data, stack) ==
  scan_region(scan_region(ResetMarks(m, g), g, data), g, stack)

RECURSIVE PassCount(_, _)
\* The iterations the do-while of scan_heap makes from m: it goes round
\* again exactly when the pass set new_marks.
PassCount(m, g) ==
  LET Again(m1) == IF m1 # m THEN 1 + PassCount(m1, g) ELSE 1
  IN  Again(HeapPass(m, g, g))

RECURSIVE Passes(_, _, _)
\* The arena after k iterations of the do-while of scan_heap.
Passes(m, g, k) == IF k = 0 THEN m ELSE Passes(HeapPass(m, g, g), g, k - 1)

RECURSIVE MergeSteps(_, _)
\* The iterations the while loop of merge_free_blocks makes from current.
MergeSteps(m, current) ==
  IF current = NULL \/ NextOf(m, current) = NULL THEN 0
  ELSE LET next == NextOf(m, current)
       IN  IF FreeOf(m, current) # 0 /\ FreeOf(m, next) # 0 /\ Adjacent(m, current, next)
           THEN 1 + MergeSteps(
                      SetNext(SetSize(m, current,
                                      (SizeOf(m, current) + META_SIZE + SizeOf(m, next)) % SIZE_MOD),
                              current, NextOf(m, next)),
                      current)
           ELSE 1 + MergeSteps(m, next)

\* A collector that runs the coalescing pass after its sweep.
GcCoalescing(m, g, data, stack) ==
  IF g = NULL THEN m
  ELSE merge_free_blocks(
         Sweep(scan_heap(scan_region(scan_region(ResetMarks(m, g), g, data), g, stack), g), g),
         g)
\* gc(), given the words of the data segment and of the stack
gc(m, g, data, stack) ==
  IF g = NULL THEN m
  ELSE Sweep(scan_heap(scan_region(scan_region(ResetMarks(m, g), g, data), g, stack), g), g)

\* ------------------------------------------------------------ the client
\* The words between etext and end: global_base itself and the client's
\* global pointer variable.
DataWords == <<global_base, roots["g"]>>
\* The words from the frame pointer of gc's caller to stack_bottom: the
\* client's local pointer variable.
StackWords == <<roots["l"]>>

\* The record of a call: repeat tells a gc that directly follows a gc.
Call(name, n, ptr, ret, copied) ==
  [name |-> name, n |-> n, ptr |-> ptr, ret |-> ret, copied |-> copied, repeat |-> FALSE]

Init ==
  /\ mem = <<>>
  /\ global_base = NULL
  /\ roots = [i \in RootVars |-> NULL]
  /\ lens = [i \in RootVars |-> 0]
  /\ status = "run"
  /\ op = Call("init", 0, NULL, NULL, 0)
  /\ steps = 0

\* Every client step: the program is running and has steps left.
Step ==
  /\ status = "run"
  /\ steps < MaxSteps
  /\ steps' = steps + 1

\* Words the client asked for with a request of n bytes that returned p.
Asked(p, n) == IF p = NULL THEN 0 ELSE AlignUp(n) \div WORD

\* roots[i] = malloc(n);
Malloc(i, n) ==
  \E r \in {malloc(mem, global_base, n)} :
      /\ Step
      /\ mem' = r.mem
      /\ global_base' = r.base
      /\ status' = IF r.st = "abort" THEN "abort" ELSE "run"
      /\ roots' = IF r.st = "abort" THEN roots ELSE [roots EXCEPT ![i] = r.ret]
      /\ lens' = IF r.st = "abort" THEN lens ELSE [lens EXCEPT ![i] = Asked(r.ret, n)]
      /\ op' = Call("malloc", n, NULL, r.ret, 0)

\* free(roots[i]); the variable keeps the pointer it held.
Release(i) ==
  \E r \in {free(mem, global_base, roots[i])} :
      /\ Step
      /\ mem' = r.mem
      /\ status' = IF r.st = "abort" THEN "abort" ELSE "run"
      /\ lens' = [lens EXCEPT ![i] = 0]
      /\ op' = Call("free", 0, roots[i], NULL, 0)
      /\ UNCHANGED <<global_base, roots>>

\* The block in the list whose payload starts at p and is in use.
IsLive(m, g, p) ==
  \E k \in 1..Len(Blocks(m, g)) :
     Blocks(m, g)[k] + META_SIZE = p /\ FreeOf(m, Blocks(m, g)[k]) = 0

\* roots[i] = realloc(roots[i], n); on NULL or a pointer to a block in use.
Realloc(i, n) ==
  /\ Step
  /\ roots[i] = NULL \/ IsLive(mem, global_base, roots[i])
  /\ \E r \in {realloc(mem, global_base, roots[i], n)} :
      /\ mem' = r.mem
      /\ global_base' = r.base
      /\ status' = IF r.st = "abort" THEN "abort" ELSE "run"
      /\ roots' = IF r.st = "abort" THEN roots ELSE [roots EXCEPT ![i] = r.ret]
      /\ lens' = IF r.st = "abort" THEN lens ELSE [lens EXCEPT ![i] = Asked(r.ret, n)]
      /\ op' = Call("realloc", n, roots[i], r.ret, r.copied)

\* ((uintptr_t *)roots[i])[k] = v; inside what the client asked for, through
\* a pointer to a block in use, v being NULL or one of its pointer variables.
Store(i, k, v) ==
  /\ Step
  /\ roots[i] # NULL
  /\ IsLive(mem, global_base, roots[i])
  /\ k < lens[i]
  /\ k < SizeOf(mem, roots[i] - META_SIZE) \div WORD
  /\ mem[Idx(roots[i]) + k] # <<v, 0>>
  /\ mem' = [mem EXCEPT ![Idx(roots[i]) + k] = <<v, 0>>]
  /\ op' = Call("store", 0, roots[i], NULL, 0)
  /\ UNCHANGED <<global_base, roots, lens, status>>

\* roots[i] = NULL;
Clear(i) ==
  /\ Step
  /\ roots[i] # NULL
  /\ roots' = [roots EXCEPT ![i] = NULL]
  /\ lens' = [lens EXCEPT ![i] = 0]
  /\ op' = Call("clear", 0, NULL, NULL, 0)
  /\ UNCHANGED <<mem, global_base, status>>

\* gc();
Collect ==
  /\ Step
  /\ mem' = gc(mem, global_base, DataWords, StackWords)
  /\ op' = [Call("gc", 0, NULL, NULL, 0) EXCEPT !.repeat = (op.name = "gc")]
  /\ UNCHANGED <<global_base, roots, lens, status>>

Next ==
  \/ \E i \in RootVars, n \in ReqSizes : Malloc(i, n)
  \/ \E i \in RootVars : Release(i)
  \/ \E i \in RootVars, n \in ReqSizes : Realloc(i, n)
  \/ \E i \in RootVars, k \in 0..(MaxHeapWords - 1), v \in {NULL} \cup {roots[j] : j \in RootVars} :
        Store(i, k, v)
  \/ \E i \in RootVars : Clear(i)
  \/ Collect

Spec == Init /\ [][Next]_vars

\* ------------------------------------------------------------ properties
\* The block headers of the list, as a set.
BlockSet(m, g) == {Blocks(m, g)[k] : k \in 1..Len(Blocks(m, g))}
\* One past the last payload byte of block b.
BlockEnd(m, b) == b + META_SIZE + SizeOf(m, b)
\* The payload addresses of block b.
Payload(m, b) == (b + META_SIZE)..(BlockEnd(m, b) - 1)
\* The payload words of block b, as values.
PayloadWords(m, b) == {Val(m[Idx(b + META_SIZE) + i]) : i \in 0..(SizeOf(m, b) \div WORD - 1)}
\* The words of the root regions.
RootWords == {DataWords[k] : k \in 1..Len(DataWords)} \cup {StackWords[k] : k \in 1..Len(StackWords)}

RECURSIVE Closure(_, _, _)
\* The blocks of all reached from the blocks of R through payload words.
Closure(m, all, R) ==
  LET more == {b \in all \ R : \E a \in R : PayloadWords(m, a) \cap Payload(m, b) # {}}
  IN  IF more = {} THEN R ELSE Closure(m, all, R \cup more)
\* The blocks reachable from the root words: a root word holds an address in
\* the payload, or a payload word of a reachable block does.
Reachable(m, g) ==
  Closure(m, BlockSet(m, g), {b \in BlockSet(m, g) : RootWords \cap Payload(m, b) # {}})

\* C1: in every state any sequence of malloc, free, realloc and gc calls
\* reaches, the header-and-payload ranges of any two blocks of the list are
\* disjoint; in particular no two payloads of blocks in use overlap, and no
\* payload overlaps another block's header.
C1_NoOverlap ==
  \A a, b \in BlockSet(mem, global_base) :
     a # b => BlockEnd(mem, a) <= b \/ BlockEnd(mem, b) <= a
\* C1 witness: three blocks in the list, the middle one in use between a
\* free one and one in use, after a block was reused.
C1_Witness ==
  /\ status = "run"
  /\ Len(Blocks(mem, global_base)) >= 3
  /\ \E a, b \in BlockSet(mem, global_base) :
        /\ FreeOf(mem, a) = 0 /\ MagicOf(mem, a) = MAGIC_REUSED
        /\ FreeOf(mem, b) = 0 /\ BlockEnd(mem, a) = b
  /\ \E c \in BlockSet(mem, global_base) : FreeOf(mem, c) # 0

\* C2: a gc call frees no block that was in use before it and is reachable
\* from a root word through a chain of blocks' payload words.
C2_ReachableSurvive ==
  [][op'.name = "gc" =>
       \A b \in Reachable(mem, global_base) :
          FreeOf(mem, b) = 0 => FreeOf(mem', b) = 0]_vars
\* C2 witness: after gc, a target in use that only a chain of two blocks
\* links to a root, each link pointing backwards in the list so that the
\* heap scan needs more than one pass.
C2_Witness ==
  /\ op.name = "gc"
  /\ \E t, b2, b1 \in BlockSet(mem, global_base) :
        /\ t < b2 /\ b2 < b1
        /\ FreeOf(mem, t) = 0 /\ FreeOf(mem, b2) = 0 /\ FreeOf(mem, b1) = 0
        /\ RootWords \cap Payload(mem, b1) # {}
        /\ RootWords \cap (Payload(mem, b2) \cup Payload(mem, t)) = {}
        /\ PayloadWords(mem, b1) \cap Payload(mem, b2) # {}
        /\ PayloadWords(mem, b1) \cap Payload(mem, t) = {}
        /\ PayloadWords(mem, b2) \cap Payload(mem, t) # {}

\* C3: after a gc call every block that was in use before it and is not
\* reachable from the root words is free, blocks that only reference each
\* other included.
C3_UnreachableFreed ==
  [][op'.name = "gc" =>
       \A b \in BlockSet(mem, global_base) \ Reachable(mem, global_base) :
          FreeOf(mem, b) = 0 => FreeOf(mem', b) # 0]_vars
\* C3 witness: after gc, two blocks that point at each other and that no
\* root word reaches, both released by the sweep.
C3_Witness ==
  /\ op.name = "gc"
  /\ \E a, b \in BlockSet(mem, global_base) :
        /\ a # b
        /\ PayloadWords(mem, a) \cap Payload(mem, b) # {}
        /\ PayloadWords(mem, b) \cap Payload(mem, a) # {}
        /\ {a, b} \cap Reachable(mem, global_base) = {}
        /\ FreeOf(mem, a) # 0 /\ MagicOf(mem, a) = MAGIC_RELEASED
        /\ FreeOf(mem, b) # 0 /\ MagicOf(mem, b) = MAGIC_RELEASED

\* No two free blocks of the list are address-adjacent.
NoAdjacentFree ==
  \A a, b \in BlockSet(mem, global_base) :
     FreeOf(mem, a) # 0 /\ FreeOf(mem, b) # 0 => BlockEnd(mem, a) # b
\* C4 as stated: after any free(ptr) call that returned, no two free blocks
\* of the list are address-adjacent.
C4_AnyFreeCoalesces == op.name = "free" /\ status = "run" => NoAdjacentFree
\* C4 amended: after a free(ptr) call with a non-null ptr that returned, no
\* two free blocks of the list are address-adjacent, whatever an earlier gc
\* left unmerged.
C4_NonNullFreeCoalesces ==
  op.name = "free" /\ op.ptr # NULL /\ status = "run" => NoAdjacentFree
\* C4 witness: a free of a non-null pointer returned and left one free block
\* that spans three blocks of the smallest size, two of them released
\* earlier by gc.
C4_Witness ==
  /\ op.name = "free" /\ op.ptr # NULL /\ status = "run"
  /\ \E b \in BlockSet(mem, global_base) :
        /\ FreeOf(mem, b) # 0
        /\ SizeOf(mem, b) = 3 * MIN_SIZE + 2 * META_SIZE
        /\ op.ptr = b + 2 * (META_SIZE + MIN_SIZE) + META_SIZE

\* C5: a gc call that directly follows a gc call changes no block's free
\* flag.
C5_SecondGcChangesNothing ==
  [][op.name = "gc" /\ op'.name = "gc" =>
       \A b \in BlockSet(mem, global_base) : FreeOf(mem', b) = FreeOf(mem, b)]_vars
\* C5 witness: after a gc that directly followed a gc, with at least two
\* blocks the collector released and a block still in use.
C5_Witness ==
  /\ op.name = "gc" /\ op.repeat
  /\ \E a, b, c \in BlockSet(mem, global_base) :
        /\ a # b
        /\ FreeOf(mem, a) # 0 /\ MagicOf(mem, a) = MAGIC_RELEASED
        /\ FreeOf(mem, b) # 0 /\ MagicOf(mem, b) = MAGIC_RELEASED
        /\ FreeOf(mem, c) = 0

\* The client called realloc on the block of a non-null pointer; old is the
\* size its header recorded when the call was made.
ReallocOf(old) ==
  /\ op'.name = "realloc"
  /\ op'.ptr # NULL
  /\ old = SizeOf(mem, op'.ptr - META_SIZE)

\* C6: a realloc(p, newsize) with newsize above the recorded size of p's
\* block that succeeds returns a different pointer to a block in use whose
\* first old-size bytes are p's payload before the call; memcpy is handed
\* exactly the old size, which fits the new block's payload, and the bytes
\* p pointed to lie in a free block of the list afterwards.
C6_ReallocGrowCopies ==
  [][\A old \in 0..(MaxHeapWords * WORD) :
       ReallocOf(old) /\ op'.n > old /\ op'.ret # NULL /\ status' = "run" =>
         /\ op'.ret # op'.ptr
         /\ op'.ret - META_SIZE \in BlockSet(mem', global_base')
         /\ FreeOf(mem', op'.ret - META_SIZE) = 0
         /\ op'.copied = old
         /\ old <= SizeOf(mem', op'.ret - META_SIZE)
         /\ \A k \in 0..(old \div WORD - 1) :
               mem'[Idx(op'.ret) + k] = mem[Idx(op'.ptr) + k]
         /\ \E b \in BlockSet(mem', global_base') :
               /\ FreeOf(mem', b) # 0
               /\ b <= op'.ptr - META_SIZE
               /\ op'.ptr + old <= BlockEnd(mem', b)]_vars
\* C6 witness: a realloc moved a block whose payload held a pointer, and the
\* new block holds that pointer.
C6_Witness ==
  /\ op.name = "realloc" /\ status = "run"
  /\ op.ptr # NULL /\ op.ret # NULL /\ op.ret # op.ptr
  /\ op.copied > 0
  /\ mem[Idx(op.ret)] # ZeroWord
  /\ mem[Idx(op.ret)] = mem[Idx(op.ptr)]

\* C7: a realloc(p, newsize) with 0 < newsize <= the recorded size of p's
\* block returns p and leaves the arena and the list as they were.
C7_ReallocFitsInPlace ==
  [][\A old \in 0..(MaxHeapWords * WORD) :
       ReallocOf(old) /\ 0 < op'.n /\ op'.n <= old =>
         /\ op'.ret = op'.ptr
         /\ mem' = mem
         /\ global_base' = global_base
         /\ status' = "run"]_vars
\* C7 witness: a realloc asked for less than the block's recorded size, so
\* that a shrinking realloc would have reduced it, and returned its argument.
C7_Witness ==
  /\ op.name = "realloc" /\ status = "run"
  /\ op.ptr # NULL /\ op.ret = op.ptr
  /\ 0 < op.n /\ AlignUp(op.n) < SizeOf(mem, op.ptr - META_SIZE)

\* C8: the arena starting at a multiple of 8, every non-null pointer malloc
\* or realloc returned is a multiple of 8, and so is every pointer the client
\* holds and the recorded size of every block of the list.
C8_Aligned ==
  /\ op.name \in {"malloc", "realloc"} /\ op.ret # NULL => op.ret % WORD = 0
  /\ \A i \in RootVars : roots[i] % WORD = 0
  /\ \A b \in BlockSet(mem, global_base) : SizeOf(mem, b) % WORD = 0
\* C8 witness: a malloc of a size that is no multiple of 8 returned a block
\* cut from a free block that a merge had made, the remainder of the split
\* following it.
C8_Witness ==
  /\ op.name = "malloc" /\ op.n % WORD # 0 /\ op.ret # NULL
  /\ \E b \in BlockSet(mem, global_base) :
        /\ b = op.ret - META_SIZE
        /\ MagicOf(mem, b) = MAGIC_REUSED
        /\ NextOf(mem, b) # NULL
        /\ MagicOf(mem, NextOf(mem, b)) = MAGIC_SPLIT

\* malloc(n) cannot get memory: no free block of the list fits the aligned
\* request and sbrk refuses to extend the arena by it.
CannotExtend(n) ==
  /\ n > 0
  /\ find_free_block(mem, global_base, NULL, AlignUp(n)).block = NULL
  /\ sbrk(mem, AlignUp(n) + META_SIZE).ret = SBRK_FAILED
\* C9 as stated: a malloc(size) that cannot get memory returns NULL to its
\* caller and leaves the arena and the list as they were.
C9_ExhaustedReturnsNull ==
  [][op'.name = "malloc" /\ CannotExtend(op'.n) =>
       /\ status' = "run"
       /\ op'.ret = NULL
       /\ mem' = mem
       /\ global_base' = global_base]_vars

\* C10: a free(ptr) on a non-null ptr whose header does not carry an
\* allocation tag does not return: the program aborts, with the arena and
\* the list as they were.
C10_FreeOfReleasedAborts ==
  [][/\ op'.name = "free"
     /\ op'.ptr # NULL
     /\ MagicOf(mem, op'.ptr - META_SIZE) \notin {MAGIC_FRESH, MAGIC_REUSED}
     => /\ status' = "abort"
        /\ mem' = mem
        /\ global_base' = global_base]_vars
\* C10 witness: the program aborted in a free of a pointer whose block a
\* free or the collector had released.
C10_Witness ==
  /\ op.name = "free" /\ status = "abort"
  /\ op.ptr # NULL
  /\ MagicOf(mem, op.ptr - META_SIZE) = MAGIC_RELEASED
  /\ FreeOf(mem, op.ptr - META_SIZE) # 0

\* C12: a malloc(0) returns NULL and leaves every word of the arena and
\* global_base as they were, on an empty arena as on one with free blocks.
C12_ZeroRequestNoChange ==
  [][op'.name = "malloc" /\ op'.n = 0 =>
       /\ op'.ret = NULL
       /\ status' = "run"
       /\ mem' = mem
       /\ global_base' = global_base]_vars
\* C12 witness: a malloc(0) returned NULL on an arena that held a free
\* block it could have handed out.
C12_Witness ==
  /\ op.name = "malloc" /\ op.n = 0 /\ op.ret = NULL
  /\ \E b \in BlockSet(mem, global_base) : FreeOf(mem, b) # 0

\* The free blocks of the list that hold size bytes.
Fitting(size) ==
  {b \in BlockSet(mem, global_base) : FreeOf(mem, b) # 0 /\ SizeOf(mem, b) >= size}
\* The lowest address of a non-empty set of addresses.
Lowest(S) == CHOOSE b \in S : \A c \in S : b <= c
\* The last block of the list.
LastBlock(m, g) == Blocks(m, g)[Len(Blocks(m, g))]

\* C13: a malloc(size) with size > 0 on a non-empty arena that returns hands
\* out the lowest free block that holds the aligned size, without extending
\* the arena; when no free block of the list holds it and the call returns a
\* pointer, the block is new, at the old break, linked after the block that
\* was last.
C13_FirstFit ==
  [][op'.name = "malloc" /\ op'.n > 0 /\ global_base # NULL /\ status' = "run" =>
       IF Fitting(AlignUp(op'.n)) # {}
       THEN /\ op'.ret = Lowest(Fitting(AlignUp(op'.n))) + META_SIZE
            /\ Len(mem') = Len(mem)
       ELSE \/ op'.ret = NULL /\ mem' = mem
            \/ /\ op'.ret = Brk(mem) + META_SIZE
               /\ Len(mem') > Len(mem)
               /\ NextOf(mem', LastBlock(mem, global_base)) = Brk(mem)
               /\ LastBlock(mem', global_base') = Brk(mem)]_vars
\* C13 witness: a malloc passed over a free block that was too small and
\* reused a later free block.
C13_Witness ==
  /\ op.name = "malloc" /\ op.ret # NULL
  /\ MagicOf(mem, op.ret - META_SIZE) = MAGIC_REUSED
  /\ \E a \in BlockSet(mem, global_base) :
        /\ a < op.ret - META_SIZE
        /\ FreeOf(mem, a) # 0
        /\ SizeOf(mem, a) < AlignUp(op.n)

\* The malloc step returned and handed out b, a block of the list that was
\* free when the call was made.
Reused(b) ==
  /\ op'.name = "malloc" /\ status' = "run"
  /\ op'.ret = b + META_SIZE
  /\ FreeOf(mem, b) # 0
\* The step split b: b keeps size bytes and a free, unmarked block that
\* holds the rest but a header follows it in memory and in the list.
SplitDone(b, size) ==
  /\ SizeOf(mem', b) = size
  /\ NextOf(mem', b) = b + META_SIZE + size
  /\ SizeOf(mem', b + META_SIZE + size) = SizeOf(mem, b) - size - META_SIZE
  /\ FreeOf(mem', b + META_SIZE + size) # 0
  /\ MarkedOf(mem', b + META_SIZE + size) = 0
  /\ NextOf(mem', b + META_SIZE + size) = NextOf(mem, b)
  /\ Len(Blocks(mem', global_base')) = Len(Blocks(mem, global_base)) + 1
\* The step handed out b whole: its size and the list are as they were.
WholeDone(b) ==
  /\ SizeOf(mem', b) = SizeOf(mem, b)
  /\ Blocks(mem', global_base') = Blocks(mem, global_base)

\* C14 as stated: a malloc that reuses a free block splits it if and only if
\* its size exceeds aligned size + header size + MIN_SIZE; split, the block
\* keeps the aligned size and the tail is a free, unmarked block linked after
\* it; not split, the block is handed out whole.
C14_SplitWhenExceeds ==
  [][\A b \in BlockSet(mem, global_base) :
       Reused(b) =>
         IF SizeOf(mem, b) > AlignUp(op'.n) + META_SIZE + MIN_SIZE
         THEN SplitDone(b, AlignUp(op'.n)) ELSE WholeDone(b)]_vars
\* C14 amended: a malloc that reuses a free block splits it if and only if
\* its size is at least aligned size + header size + MIN_SIZE; split, the
\* block keeps the aligned size and the tail is a free, unmarked block of
\* size (old size - aligned size - header size) linked after it; not split,
\* the block is handed out whole.
C14_SplitWhenAtLeast ==
  [][\A b \in BlockSet(mem, global_base) :
       Reused(b) =>
         IF SizeOf(mem, b) >= AlignUp(op'.n) + META_SIZE + MIN_SIZE
         THEN SplitDone(b, AlignUp(op'.n)) ELSE WholeDone(b)]_vars
\* C14 witness: a malloc reused a block of exactly aligned size + header
\* size + MIN_SIZE bytes and split it, the remainder holding MIN_SIZE bytes.
C14_Witness ==
  /\ op.name = "malloc" /\ op.ret # NULL /\ status = "run"
  /\ MagicOf(mem, op.ret - META_SIZE) = MAGIC_REUSED
  /\ SizeOf(mem, op.ret - META_SIZE) = AlignUp(op.n)
  /\ NextOf(mem, op.ret - META_SIZE) = op.ret + AlignUp(op.n)
  /\ MagicOf(mem, op.ret + AlignUp(op.n)) = MAGIC_SPLIT
  /\ SizeOf(mem, op.ret + AlignUp(op.n)) = MIN_SIZE

\* The arena words that hold the free and marked flags and the tag of the
\* blocks of the list.
FlagWords(m, g) == UNION {{Idx(b) + 2, Idx(b) + 3} : b \in BlockSet(m, g)}

\* C15: a gc call leaves global_base, the extent of the arena, the list of
\* blocks, their sizes and links and every payload word as they were: the
\* only words it changes hold the flags and the tag of a block of the list.
C15_GcFrame ==
  [][op'.name = "gc" =>
       /\ global_base' = global_base
       /\ Len(mem') = Len(mem)
       /\ \A k \in 1..Len(mem) : mem'[k] # mem[k] => k \in FlagWords(mem, global_base)
       /\ Blocks(mem', global_base') = Blocks(mem, global_base)
       /\ \A b \in BlockSet(mem, global_base) :
             SizeOf(mem', b) = SizeOf(mem, b) /\ NextOf(mem', b) = NextOf(mem, b)]_vars
\* C15 witness: after gc, two address-adjacent blocks the sweep released
\* are still two blocks of the list, next to a block in use whose payload
\* holds a pointer.
C15_Witness ==
  /\ op.name = "gc"
  /\ \E a, b, c \in BlockSet(mem, global_base) :
        /\ BlockEnd(mem, a) = b /\ NextOf(mem, a) = b
        /\ FreeOf(mem, a) # 0 /\ MagicOf(mem, a) = MAGIC_RELEASED
        /\ FreeOf(mem, b) # 0 /\ MagicOf(mem, b) = MAGIC_RELEASED
        /\ FreeOf(mem, c) = 0 /\ mem[Idx(c + META_SIZE)] # ZeroWord

\* C16: in every state the next links from global_base visit the blocks in
\* strictly increasing address, so the list has no cycle and no block twice.
C16_ListAscending ==
  \A k \in 1..(Len(Blocks(mem, global_base)) - 1) :
     Blocks(mem, global_base)[k] < Blocks(mem, global_base)[k + 1]
\* C16 witness: a list that grew to three blocks, saw two of them merged,
\* and in which a malloc then cut a remainder that has a block after it.
C16_Witness ==
  /\ op.name = "malloc" /\ status = "run"
  /\ Len(Blocks(mem, global_base)) >= 3
  /\ \E b \in BlockSet(mem, global_base) :
        /\ MagicOf(mem, b) = MAGIC_SPLIT
        /\ NextOf(mem, b) # NULL
        /\ b = op.ret + AlignUp(op.n)

\* The blocks that are in the list before and after the step.
Staying == BlockSet(mem, global_base) \cap BlockSet(mem', global_base')
\* The step is a malloc or realloc that handed out b, free until then, cut
\* down to the aligned request, the tail being a new block linked after it.
CutBySplit(b) ==
  /\ op'.name \in {"malloc", "realloc"}
  /\ op'.ret = b + META_SIZE
  /\ FreeOf(mem, b) # 0
  /\ SizeOf(mem', b) = AlignUp(op'.n)
  /\ NextOf(mem', b) = b + META_SIZE + SizeOf(mem', b)
  /\ NextOf(mem', b) # NextOf(mem, b)

\* C17 as stated: no step makes the recorded size of a block that is in the
\* list before and after it smaller.
C17_NeverShrinks ==
  [][\A b \in Staying : SizeOf(mem', b) >= SizeOf(mem, b)]_vars
\* C17 amended: the only block of the list whose recorded size a step makes
\* smaller is the free block a malloc or realloc reuses and splits, which
\* keeps the aligned request size; no free, gc or merge makes a block
\* smaller, and no block in use ever gets smaller.
C17_ShrinksOnlyBySplit ==
  [][\A b \in Staying : SizeOf(mem', b) >= SizeOf(mem, b) \/ CutBySplit(b)]_vars
\* C17 witness: a malloc cut a block of 56 bytes, the merge of two blocks,
\* down to 8 bytes, leaving a remainder of 16.
C17_Witness ==
  /\ op.name = "malloc" /\ op.ret # NULL /\ status = "run"
  /\ MagicOf(mem, op.ret - META_SIZE) = MAGIC_REUSED
  /\ SizeOf(mem, op.ret - META_SIZE) = MIN_SIZE
  /\ NextOf(mem, op.ret - META_SIZE) = op.ret + MIN_SIZE
  /\ MagicOf(mem, op.ret + MIN_SIZE) = MAGIC_SPLIT
  /\ SizeOf(mem, op.ret + MIN_SIZE) = 2 * MIN_SIZE

\* C20: in every state each block of the list in use carries the tag
\* 0x12345678 or 0x77777777 and each free block of the list the tag
\* 0x55555555 or 0x22222222.
C20_TagMatchesFlag ==
  \A b \in BlockSet(mem, global_base) :
     IF FreeOf(mem, b) = 0
     THEN MagicOf(mem, b) \in {MAGIC_FRESH, MAGIC_REUSED}
     ELSE MagicOf(mem, b) \in {MAGIC_RELEASED, MAGIC_SPLIT}
\* C20 witness: after gc, a list that holds a reused block in use, a fresh
\* block in use and a block the sweep released.
C20_Witness ==
  /\ op.name = "gc"
  /\ \E a, b, c \in BlockSet(mem, global_base) :
        /\ FreeOf(mem, a) = 0 /\ MagicOf(mem, a) = MAGIC_REUSED
        /\ FreeOf(mem, b) # 0 /\ MagicOf(mem, b) = MAGIC_RELEASED
        /\ FreeOf(mem, c) = 0 /\ MagicOf(mem, c) = MAGIC_FRESH

\* The do-while of scan_heap, started on m0, ends after k passes, k at most
\* the number of blocks plus one: every pass but the last marks a block, the
\* last marks none, and scan_heap returns what the k passes leave.
ScanEnds(m0, g, k) ==
  /\ k <= Len(Blocks(m0, g)) + 1
  /\ \A j \in 1..(k - 1) : Passes(m0, g, j) # Passes(m0, g, j - 1)
  /\ Passes(m0, g, k) = Passes(m0, g, k - 1)
  /\ scan_heap(m0, g) = Passes(m0, g, k)

\* C19: in every gc call on a non-empty list the heap scan ends after at
\* most (number of blocks + 1) passes, a further pass following only a pass
\* that marked a block; and in every free that reaches the coalescing pass
\* its loop ends after fewer iterations than the list has blocks.
C19_LoopsEnd ==
  [][/\ op'.name = "gc" /\ global_base # NULL =>
          \A k \in {PassCount(AfterRoots(mem, global_base, DataWords, StackWords), global_base)} :
             ScanEnds(AfterRoots(mem, global_base, DataWords, StackWords), global_base, k)
     /\ op'.name = "free" /\ op'.ptr # NULL /\ status' = "run" =>
          MergeSteps(SetFree(mem, op'.ptr - META_SIZE, 1), global_base)
            < Len(Blocks(mem, global_base))]_vars
\* C19 witness: after a gc whose heap scan took three passes, two that
\* marked a block and the one that found nothing new.
C19_Witness ==
  /\ op.name = "gc" /\ global_base # NULL
  /\ PassCount(AfterRoots(mem, global_base, DataWords, StackWords), global_base) = 3

\* roots[i] = realloc(roots[i], n); on a pointer the client kept to a block
\* of the list that has been released since.
ReallocReleased(i, n) ==
  /\ Step
  /\ roots[i] # NULL
  /\ roots[i] - META_SIZE \in BlockSet(mem, global_base)
  /\ FreeOf(mem, roots[i] - META_SIZE) # 0
  /\ \E r \in {realloc(mem, global_base, roots[i], n)} :
      /\ mem' = r.mem
      /\ global_base' = r.base
      /\ status' = IF r.st = "abort" THEN "abort" ELSE "run"
      /\ roots' = IF r.st = "abort" THEN roots ELSE [roots EXCEPT ![i] = r.ret]
      /\ lens' = IF r.st = "abort" THEN lens ELSE [lens EXCEPT ![i] = Asked(r.ret, n)]
      /\ op' = Call("realloc", n, roots[i], r.ret, r.copied)

\* A client that also passes released pointers to realloc.
NextStale ==
  \/ \E i \in RootVars, n \in ReqSizes : Malloc(i, n)
  \/ \E i \in RootVars : Release(i)
  \/ \E i \in RootVars, n \in ReqSizes : ReallocReleased(i, n)
  \/ \E i \in RootVars : Clear(i)
  \/ Collect

SpecStale == Init /\ [][NextStale]_vars

\* C11 as stated: a realloc(ptr, newsize) on a non-null ptr whose header
\* does not carry an allocation tag aborts, whatever newsize is, with the
\* arena and the list as they were.
C11_ReallocOfReleasedAborts ==
  [][/\ op'.name = "realloc"
     /\ op'.ptr # NULL
     /\ MagicOf(mem, op'.ptr - META_SIZE) \notin {MAGIC_FRESH, MAGIC_REUSED}
     => /\ status' = "abort"
        /\ mem' = mem
        /\ global_base' = global_base]_vars

\* Request sizes of a client that also asks for nearly the largest size_t.
WrapSizes == {1, 9, SIZE_MOD - 1}

\* A client whose requests include sizes within 7 of the largest size_t.
NextWrap ==
  \/ \E i \in RootVars, n \in WrapSizes : Malloc(i, n)
  \/ \E i \in RootVars : Release(i)
  \/ \E i \in RootVars : Clear(i)
  \/ Collect

SpecWrap == Init /\ [][NextWrap]_vars

\* C18 as stated: a malloc(n) with n > 0 that returns gives NULL or the
\* payload of a block in use whose recorded size is at least n, for every n
\* of size_t, those within 7 of its maximum included.
C18_SizeCoversRequest ==
  [][op'.name = "malloc" /\ op'.n > 0 /\ status' = "run" =>
       \/ op'.ret = NULL
       \/ /\ FreeOf(mem', op'.ret - META_SIZE) = 0
          /\ SizeOf(mem', op'.ret - META_SIZE) >= op'.n]_vars

====
